---- MODULE Spec2Model ----
(***************************************************************************)
(* A model of AppearanceProvider (packages/js/src/ui/context/              *)
(* AppearanceContext.tsx): the resolution of an Appearance into effective  *)
(* variables and elements, the three reactive effects that turn them into  *)
(* CSS rules, and the <style> node the provider adopts or creates in the   *)
(* document and removes on teardown.                                       *)
(***************************************************************************)
EXTENDS Integers, Sequences, FiniteSets, TLC

(***************************************************************************)
(* Bounds of the model.                                                    *)
(***************************************************************************)
\* longest baseTheme array drawn as an input
MaxThemes == 2
\* provider instances that can be alive at the same time
NumInstances == 2
\* document.createElement('style') calls in one behaviour
MaxNodes == 2

(***************************************************************************)
(* JavaScript objects are functions from their own keys: an optional       *)
(* property that is not given is a key outside the DOMAIN.                 *)
(***************************************************************************)
\* {}
EmptyObject == [k \in {} |-> ""]

\* { ...a, ...b }
Spread(a, b) ==
  [k \in (DOMAIN a) \cup (DOMAIN b) |-> IF k \in DOMAIN b THEN b[k] ELSE a[k]]

\* obj?.f || {}
OrEmpty(obj, f) == IF f \in DOMAIN obj THEN obj[f] ELSE EmptyObject

\* type Variables: the design tokens, in declaration order
Variables ==
  << "colorBackground", "colorForeground", "colorPrimary",
     "colorPrimaryForeground", "colorSecondary", "colorSecondaryForeground",
     "colorNeutral", "fontSize", "borderRadius" >>

\* appearanceKeys, restricted to a primitive, a key that extends it and an
\* unrelated key
appearanceKeys == << "button", "back__button", "root" >>

(***************************************************************************)
(* The themes memo: baseTheme as a list.  A baseTheme value carries its    *)
(* runtime type: [kind |-> "array", items |-> <<T1, ...>>] is a Theme[]    *)
(* and [kind |-> "theme", theme |-> T] a single Theme.                     *)
(***************************************************************************)
\* a memo that takes a list only: a single Theme is dropped
themesOfArrayOnly(appearance) ==
  IF "baseTheme" \in DOMAIN appearance /\ appearance.baseTheme.kind = "array"
  THEN appearance.baseTheme.items
  ELSE << >>

\* Array.isArray(baseTheme) ? baseTheme || [] : [baseTheme || {}]
themes(appearance) ==
  IF "baseTheme" \in DOMAIN appearance /\ appearance.baseTheme.kind = "array"
  THEN appearance.baseTheme.items
  ELSE << IF "baseTheme" \in DOMAIN appearance
          THEN appearance.baseTheme.theme
          ELSE EmptyObject >>

\* themes().reduce((acc, obj) => ({ ...acc, ...(obj[f] || {}) }), acc)
RECURSIVE Reduce(_, _, _)
Reduce(ts, f, acc) ==
  IF ts = << >> THEN acc
  ELSE Reduce(Tail(ts), f, Spread(acc, OrEmpty(Head(ts), f)))

\* const baseVariables = { ...defaultVariables, ...themes().reduce(...) }
baseVariables(defaults, appearance) ==
  Spread(defaults, Reduce(themes(appearance), "variables", EmptyObject))

\* a precedence slip: the caller's variables spread first, the base after
EffectiveVariablesBaseLast(defaults, appearance) ==
  Spread(OrEmpty(appearance, "variables"), baseVariables(defaults, appearance))

\* { ...baseVariables, ...(props.appearance?.variables || {}) }
EffectiveVariables(defaults, appearance) ==
  Spread(baseVariables(defaults, appearance), OrEmpty(appearance, "variables"))

\* const baseElements = themes().reduce(...)
baseElements(appearance) == Reduce(themes(appearance), "elements", EmptyObject)

\* a deep merge: the winner's properties laid over the loser's
DeepSpread(a, b) ==
  [k \in (DOMAIN a) \cup (DOMAIN b) |->
     IF k \in DOMAIN b
     THEN IF k \in DOMAIN a /\ a[k].kind = "object" /\ b[k].kind = "object"
          THEN [kind |-> "object", css |-> Spread(a[k].css, b[k].css)]
          ELSE b[k]
     ELSE a[k]]

EffectiveElementsDeep(appearance) ==
  DeepSpread(baseElements(appearance), OrEmpty(appearance, "elements"))

\* { ...baseElements, ...(props.appearance?.elements || {}) }
EffectiveElements(appearance) ==
  Spread(baseElements(appearance), OrEmpty(appearance, "elements"))

(***************************************************************************)
(* The helpers and the configuration the provider imports (../helpers,     *)
(* ../config).  A CSS text is a string; an element style is               *)
(* [kind |-> "string", class |-> c] (a class name given by the caller) or  *)
(* [kind |-> "object", css |-> m] (a CSSProperties mapping).               *)
(***************************************************************************)
\* defaultVariables
defaultVariables == [colorPrimary |-> "#000"]

\* the CSS properties the modelled style objects use, in a fixed order
cssProperties == << "color", "padding" >>

RECURSIVE cssObjectToString(_, _)
cssObjectToString(css, ps) ==
  IF ps = << >> THEN ""
  ELSE (IF Head(ps) \in DOMAIN css
        THEN Head(ps) \o ":" \o css[Head(ps)] \o ";"
        ELSE "") \o cssObjectToString(css, Tail(ps))

\* one custom-property rule per present token, scoped under the id
RECURSIVE variableRulesOf(_, _, _)
variableRulesOf(vars, id, tokens) ==
  IF tokens = << >> THEN << >>
  ELSE (IF Head(tokens) \in DOMAIN vars
        THEN << "." \o id \o "{--nv-" \o Head(tokens) \o ":"
                  \o vars[Head(tokens)] \o ";}" >>
        ELSE << >>) \o variableRulesOf(vars, id, Tail(tokens))

parseVariables(vars, id) == variableRulesOf(vars, id, Variables)

\* the digest of a style payload that ends a generated class name
RECURSIVE cssDigest(_, _)
cssDigest(css, ps) ==
  IF ps = << >> THEN ""
  ELSE (IF Head(ps) \in DOMAIN css THEN Head(ps) \o css[Head(ps)] ELSE "")
         \o cssDigest(css, Tail(ps))

\* the key a compound key extends ("" for a key that extends none)
baseKeyOf(key) == IF key = "back__button" THEN "button" ELSE ""

\* the class of a key alone: the caller's class name, or a generated one that
\* is a function of the key and the style payload
ownClass(key, style) ==
  IF style.kind = "string" THEN style.class
  ELSE "nv-" \o key \o "-" \o cssDigest(style.css, cssProperties)

\* a compound key registered under its own class alone
elementStyleDataOwnClass(elements, key) ==
  [ key |-> key,
    className |-> ownClass(key, elements[key]),
    rule |->
      IF elements[key].kind = "string" THEN ""
      ELSE "." \o ownClass(key, elements[key]) \o "{"
             \o cssObjectToString(elements[key].css, cssProperties) \o "}" ]

\* { key, className, rule } of one key of the element map; a class name given
\* by the caller has no rule, which join renders as the empty string
elementStyleData(elements, key) ==
  [ key |-> key,
    className |->
      IF baseKeyOf(key) \in DOMAIN elements
      THEN ownClass(baseKeyOf(key), elements[baseKeyOf(key)]) \o " "
             \o ownClass(key, elements[key])
      ELSE ownClass(key, elements[key]),
    rule |->
      IF elements[key].kind = "string" THEN ""
      ELSE "." \o ownClass(key, elements[key]) \o "{"
             \o cssObjectToString(elements[key].css, cssProperties) \o "}" ]

RECURSIVE elementsStyleDataOf(_, _)
elementsStyleDataOf(elements, keys) ==
  IF keys = << >> THEN << >>
  ELSE (IF Head(keys) \in DOMAIN elements
        THEN << elementStyleData(elements, Head(keys)) >>
        ELSE << >>) \o elementsStyleDataOf(elements, Tail(keys))

parseElements(elements) == elementsStyleDataOf(elements, appearanceKeys)

\* rules.join(' ')
RECURSIVE Join(_)
Join(rules) ==
  IF rules = << >> THEN ""
  ELSE IF Len(rules) = 1 THEN rules[1]
  ELSE rules[1] \o " " \o Join(Tail(rules))

(***************************************************************************)
(* The inputs of the providers: the ids and the appearances callers give.  *)
(* A provider keeps the id it is rendered with for its whole life.         *)
(***************************************************************************)
Ids == { "X", "Y" }

red == [kind |-> "object", css |-> [color |-> "red"]]
padded == [kind |-> "object", css |-> [padding |-> "4px"]]
custom == [kind |-> "string", class |-> "my-class"]

\* the appearance of the documented examples over a single base theme, and
\* one that drops the button and restyles the back button
Appearances ==
  { [ variables |-> [fontSize |-> "16px"],
      elements |-> [button |-> red, back__button |-> padded],
      baseTheme |->
        [ kind |-> "theme",
          theme |-> [ variables |-> [colorPrimary |-> "#111", fontSize |-> "14px"],
                      elements |-> [root |-> custom] ] ] ],
    [ elements |-> [back__button |-> red] ] }

Instances == 1 .. NumInstances

\* the effects of one provider
Effects == { "onMount", "variables", "elements", "write" }

\* The scheduler runs queued effects in the order the component created them:
\* variables, elements, write.  The three guard against a null node instead of
\* relying on onMount's place in that order, so onMount may run at any point
\* of the first flush.
runnable(q) ==
  (q \cap {"onMount"}) \cup
    (IF "variables" \in q THEN {"variables"}
     ELSE IF "elements" \in q THEN {"elements"}
     ELSE q \cap {"write"})

(***************************************************************************)
(* The state.                                                              *)
(*   nodes        every <style> node created so far, in creation order:    *)
(*                [id, innerHTML, inDocument]                              *)
(*   phase        "Unmounted", "Attaching" (component function run, onMount*)
(*                not yet), "Adopted" or "Created" (onMount has run)       *)
(*   props        [id, appearance] of each instance                        *)
(*   styleElement the styleElement signal: a node, or 0 for null           *)
(*   variableRules, elementRules   the two rule signals                    *)
(*   store        store.appearanceKeyToCssInJsClass                        *)
(*   pending      the effects of the instance that are queued to run       *)
(*   stage, defaults, appearance, effective   the inputs and the result of *)
(*                one resolution on its own (SpecVariables, SpecElements)  *)
(***************************************************************************)
VARIABLES nodes, phase, props, styleElement, variableRules, elementRules,
          store, pending, stage, defaults, appearance, effective

providerVars ==
  << nodes, phase, props, styleElement, variableRules, elementRules, store,
     pending >>
resolveVars == << stage, defaults, appearance, effective >>
vars == << providerVars, resolveVars >>

\* getElementById on a document whose nodes are ns: the first node of the
\* document with that id, or 0 for null
elementById(ns, id) ==
  LET found == { n \in 1 .. Len(ns) : ns[n].inDocument /\ ns[n].id = id }
  IN IF found = {} THEN 0 ELSE CHOOSE n \in found : \A m \in found : n <= m

\* document.getElementById(id)
getElementById(id) == elementById(nodes, id)

noProps == [id |-> "", appearance |-> EmptyObject]

resolveIdle ==
  /\ stage = "idle"
  /\ defaults = EmptyObject
  /\ appearance = EmptyObject
  /\ effective = EmptyObject

providerIdle ==
  /\ nodes = << >>
  /\ phase = [i \in Instances |-> "Unmounted"]
  /\ props = [i \in Instances |-> noProps]
  /\ styleElement = [i \in Instances |-> 0]
  /\ variableRules = [i \in Instances |-> << >>]
  /\ elementRules = [i \in Instances |-> << >>]
  /\ store = [i \in Instances |-> EmptyObject]
  /\ pending = [i \in Instances |-> {}]

\* no provider is rendered and the document holds no <style> node
Init == providerIdle /\ resolveIdle

\* The scheduler is single-threaded and runs the queued effects to completion
\* before anything else renders, changes a prop or is disposed.
idle == \A j \in Instances : pending[j] = {}

\* a provider whose store is one object shared by every instance: it starts
\* with what another mounted instance has registered
RenderSharingStore(i, id, app) ==
  /\ idle
  /\ phase[i] = "Unmounted"
  /\ \A j \in 1 .. i - 1 : phase[j] # "Unmounted"
  /\ Len(nodes) < MaxNodes \/ getElementById(id) # 0
  /\ phase' = [phase EXCEPT ![i] = "Attaching"]
  /\ props' = [props EXCEPT ![i] = [id |-> id, appearance |-> app]]
  /\ styleElement' = [styleElement EXCEPT ![i] = 0]
  /\ variableRules' = [variableRules EXCEPT ![i] = << >>]
  /\ elementRules' = [elementRules EXCEPT ![i] = << >>]
  /\ store' = [store EXCEPT ![i] = IF i > 1 THEN store[i - 1] ELSE EmptyObject]
  /\ pending' = [pending EXCEPT ![i] = Effects]
  /\ UNCHANGED << nodes, resolveVars >>

\* AppearanceProvider(props): the store and the signals start empty and the
\* four effects are queued.  Instances are interchangeable, so a new provider
\* takes the lowest free place; it is rendered only if the model still has a
\* node for it to create, or one to adopt.
Render(i, id, app) ==
  /\ idle
  /\ phase[i] = "Unmounted"
  /\ \A j \in 1 .. i - 1 : phase[j] # "Unmounted"
  /\ Len(nodes) < MaxNodes \/ getElementById(id) # 0
  /\ phase' = [phase EXCEPT ![i] = "Attaching"]
  /\ props' = [props EXCEPT ![i] = [id |-> id, appearance |-> app]]
  /\ styleElement' = [styleElement EXCEPT ![i] = 0]
  /\ variableRules' = [variableRules EXCEPT ![i] = << >>]
  /\ elementRules' = [elementRules EXCEPT ![i] = << >>]
  /\ store' = [store EXCEPT ![i] = EmptyObject]
  /\ pending' = [pending EXCEPT ![i] = Effects]
  /\ UNCHANGED << nodes, resolveVars >>

\* what setStyleElement queues: every effect that reads styleElement()
styleElementObservers == { "variables", "elements", "write" }

\* onMount without its adopt branch: a second node with the id that is found
OnMountDuplicate(i) ==
  /\ "onMount" \in pending[i]
  /\ getElementById(props[i].id) # 0
  /\ Len(nodes) < MaxNodes
  /\ nodes' = Append(nodes, [id |-> props[i].id, innerHTML |-> "", inDocument |-> TRUE])
  /\ styleElement' = [styleElement EXCEPT ![i] = Len(nodes) + 1]
  /\ phase' = [phase EXCEPT ![i] = "Created"]
  /\ pending' = [pending EXCEPT ![i] = (@ \ {"onMount"}) \cup styleElementObservers]
  /\ UNCHANGED << props, variableRules, elementRules, store, resolveVars >>

\* onMount, when getElementById finds an element: adopt it
OnMountAdopt(i) ==
  /\ "onMount" \in pending[i]
  /\ getElementById(props[i].id) # 0
  /\ styleElement' = [styleElement EXCEPT ![i] = getElementById(props[i].id)]
  /\ phase' = [phase EXCEPT ![i] = "Adopted"]
  /\ pending' = [pending EXCEPT ![i] = (@ \ {"onMount"}) \cup styleElementObservers]
  /\ UNCHANGED << nodes, props, variableRules, elementRules, store, resolveVars >>

\* onMount, when it finds none: create the node, append it to the head and
\* register the cleanup
OnMountCreate(i) ==
  /\ "onMount" \in pending[i]
  /\ getElementById(props[i].id) = 0
  /\ nodes' = Append(nodes, [id |-> props[i].id, innerHTML |-> "", inDocument |-> TRUE])
  /\ styleElement' = [styleElement EXCEPT ![i] = Len(nodes) + 1]
  /\ phase' = [phase EXCEPT ![i] = "Created"]
  /\ pending' = [pending EXCEPT ![i] = (@ \ {"onMount"}) \cup styleElementObservers]
  /\ UNCHANGED << props, variableRules, elementRules, store, resolveVars >>

\* the variables effect without its null check
VariablesEffectUnguarded(i) ==
  /\ "variables" \in runnable(pending[i])
  /\ variableRules' =
       [variableRules EXCEPT ![i] =
          parseVariables(EffectiveVariables(defaultVariables, props[i].appearance),
                         props[i].id)]
  /\ pending' = [pending EXCEPT ![i] = (@ \ {"variables"}) \cup {"write"}]
  /\ UNCHANGED << nodes, phase, props, styleElement, elementRules, store,
                  resolveVars >>

\* //handle variables: nothing without a node; else set variableRules, which
\* queues the write effect
VariablesEffect(i) ==
  /\ "variables" \in runnable(pending[i])
  /\ IF styleElement[i] = 0
     THEN /\ pending' = [pending EXCEPT ![i] = @ \ {"variables"}]
          /\ UNCHANGED variableRules
     ELSE /\ variableRules' =
               [variableRules EXCEPT ![i] =
                  parseVariables(
                    EffectiveVariables(defaultVariables, props[i].appearance),
                    props[i].id)]
          /\ pending' = [pending EXCEPT ![i] = (@ \ {"variables"}) \cup {"write"}]
  /\ UNCHANGED << nodes, phase, props, styleElement, elementRules, store,
                  resolveVars >>

\* elementsStyleData.reduce((acc, item) => { acc[item.key] = item.className }, {})
RECURSIVE classesOf(_)
classesOf(items) ==
  IF items = << >> THEN EmptyObject
  ELSE Spread([k \in {Head(items).key} |-> Head(items).className],
              classesOf(Tail(items)))

\* a registry rebuilt from the current items alone
mergeClassesReplacing(obj, items) == classesOf(items)

\* setStore('appearanceKeyToCssInJsClass', (obj) => ({ ...obj, ...classes }))
mergeClasses(obj, items) == Spread(obj, classesOf(items))

\* the rules without the last of them
rulesOfAllButLast(items) == [n \in 1 .. Len(items) - 1 |-> items[n].rule]

\* elementsStyleData.map((el) => el.rule)
rulesOf(items) == [n \in 1 .. Len(items) |-> items[n].rule]

\* //handle elements: nothing without a node; else merge the classes into the
\* store and set elementRules, which queues the write effect
ElementsEffect(i) ==
  /\ "elements" \in runnable(pending[i])
  /\ IF styleElement[i] = 0
     THEN /\ pending' = [pending EXCEPT ![i] = @ \ {"elements"}]
          /\ UNCHANGED << store, elementRules >>
     ELSE LET elementsStyleData ==
                parseElements(EffectiveElements(props[i].appearance))
          IN /\ store' = [store EXCEPT ![i] = mergeClasses(@, elementsStyleData)]
             /\ elementRules' = [elementRules EXCEPT ![i] = rulesOf(elementsStyleData)]
             /\ pending' = [pending EXCEPT ![i] = (@ \ {"elements"}) \cup {"write"}]
  /\ UNCHANGED << nodes, phase, props, styleElement, variableRules, resolveVars >>

\* the element rules written before the variable rules
innerHTMLElementsFirst(vrules, erules) == Join(erules \o vrules)

\* [...variableRules(), ...elementRules()].join(' ')
innerHTMLWritten(vrules, erules) == Join(vrules \o erules)

\* the node looked up by id at each write, instead of the one attached
writeTargetById(i) == getElementById(props[i].id)

\* const styleEl = styleElement() of the write effect
writeTarget(i) == styleElement[i]

\* //add rules to style element
WriteEffect(i) ==
  /\ "write" \in runnable(pending[i])
  /\ pending' = [pending EXCEPT ![i] = @ \ {"write"}]
  /\ IF writeTarget(i) = 0
     THEN UNCHANGED nodes
     ELSE nodes' =
            [nodes EXCEPT ![writeTarget(i)].innerHTML =
               innerHTMLWritten(variableRules[i], elementRules[i])]
  /\ UNCHANGED << phase, props, styleElement, variableRules, elementRules, store,
                  resolveVars >>

\* a change of appearance that re-runs the variables effect alone
SetAppearanceVariablesOnly(i, app) ==
  /\ idle
  /\ phase[i] \in { "Adopted", "Created" }
  /\ app # props[i].appearance
  /\ props' = [props EXCEPT ![i].appearance = app]
  /\ pending' = [pending EXCEPT ![i] = { "variables" }]
  /\ UNCHANGED << nodes, phase, styleElement, variableRules, elementRules, store,
                  resolveVars >>

\* the caller gives a new appearance: the themes memo and the two effects that
\* read props.appearance are queued; a prop that is given the value it has
\* notifies nothing
SetAppearance(i, app) ==
  /\ idle
  /\ phase[i] \in { "Adopted", "Created" }
  /\ app # props[i].appearance
  /\ props' = [props EXCEPT ![i].appearance = app]
  /\ pending' = [pending EXCEPT ![i] = { "variables", "elements" }]
  /\ UNCHANGED << nodes, phase, styleElement, variableRules, elementRules, store,
                  resolveVars >>

\* the lookup by id and the removal of what it finds, on a document whose
\* nodes are ns
removeById(ns, id) ==
  IF elementById(ns, id) # 0
  THEN [ns EXCEPT ![elementById(ns, id)].inDocument = FALSE]
  ELSE ns

\* a cleanup that leaves the node in the document
nodesAfterCleanupKeeping(i) == nodes

\* a cleanup registered on the adopt branch too
nodesAfterCleanupAlways(i) ==
  IF getElementById(props[i].id) # 0
  THEN [nodes EXCEPT ![getElementById(props[i].id)].inDocument = FALSE]
  ELSE nodes

\* onCleanup, registered only on the create branch:
\* document.getElementById(props.id)?.remove()
nodesAfterCleanup(i) ==
  IF phase[i] = "Created" /\ getElementById(props[i].id) # 0
  THEN [nodes EXCEPT ![getElementById(props[i].id)].inDocument = FALSE]
  ELSE nodes

\* a disposal that leaves the write effect of the instance alive and queued
TeardownLeavingWrite(i) ==
  /\ idle
  /\ phase[i] # "Unmounted"
  /\ nodes' = nodesAfterCleanup(i)
  /\ phase' = [phase EXCEPT ![i] = "Unmounted"]
  /\ pending' = [pending EXCEPT ![i] = { "write" }]
  /\ UNCHANGED << props, styleElement, variableRules, elementRules, store,
                  resolveVars >>

\* the provider is disposed: its cleanups run, its effects and signals are
\* gone, and its place is free for a provider rendered later
Teardown(i) ==
  /\ idle
  /\ phase[i] # "Unmounted"
  /\ nodes' = nodesAfterCleanup(i)
  /\ phase' = [phase EXCEPT ![i] = "Unmounted"]
  /\ props' = [props EXCEPT ![i] = noProps]
  /\ styleElement' = [styleElement EXCEPT ![i] = 0]
  /\ variableRules' = [variableRules EXCEPT ![i] = << >>]
  /\ elementRules' = [elementRules EXCEPT ![i] = << >>]
  /\ store' = [store EXCEPT ![i] = EmptyObject]
  /\ pending' = [pending EXCEPT ![i] = {}]
  /\ UNCHANGED resolveVars

Next ==
  \/ \E i \in Instances, id \in Ids, app \in Appearances : Render(i, id, app)
  \/ \E i \in Instances : OnMountAdopt(i)
  \/ \E i \in Instances : OnMountCreate(i)
  \/ \E i \in Instances : VariablesEffect(i)
  \/ \E i \in Instances : ElementsEffect(i)
  \/ \E i \in Instances : WriteEffect(i)
  \/ \E i \in Instances, app \in Appearances : SetAppearance(i, app)
  \/ \E i \in Instances : Teardown(i)

Spec == Init /\ [][Next]_vars

(***************************************************************************)
(* One resolution on its own: the inputs are drawn from every combination  *)
(* of defaults, base themes (none, a single Theme, an array of up to       *)
(* MaxThemes) and top-level values over two tokens, or two keys, and the   *)
(* step applies the expression of the effect.                              *)
(***************************************************************************)
PartialMaps(keys, values) == UNION { [d -> values] : d \in SUBSET keys }

\* an object with the field f, or without it
Optional(f, values) == { EmptyObject } \cup { [k \in {f} |-> v] : v \in values }

SeqsUpTo(n, values) == UNION { [1 .. m -> values] : m \in 0 .. n }

BaseThemes(themeSet) ==
  { [kind |-> "theme", theme |-> t] : t \in themeSet }
    \cup { [kind |-> "array", items |-> ts] : ts \in SeqsUpTo(MaxThemes, themeSet) }

\* appearances whose themes carry only the field f, with the given maps
AppearancesOver(f, maps) ==
  { Spread(top, base) :
      top \in Optional(f, maps),
      base \in Optional("baseTheme", BaseThemes(Optional(f, maps))) }

VariableMaps == PartialMaps({ "colorPrimary", "fontSize" }, { "#111", "16px" })

ElementMaps == PartialMaps({ "button", "back__button" }, { red, padded, custom })

InitVariables ==
  /\ providerIdle
  /\ stage = "input"
  /\ defaults \in VariableMaps
  /\ appearance \in AppearancesOver("variables", VariableMaps)
  /\ effective = EmptyObject

\* the argument of parseVariables in the variables effect
ResolveVariables ==
  /\ stage = "input"
  /\ stage' = "variables"
  /\ effective' = EffectiveVariables(defaults, appearance)
  /\ UNCHANGED << defaults, appearance, providerVars >>

SpecVariables == InitVariables /\ [][ResolveVariables]_vars

InitElements ==
  /\ providerIdle
  /\ stage = "input"
  /\ defaults = EmptyObject
  /\ appearance \in AppearancesOver("elements", ElementMaps)
  /\ effective = EmptyObject

\* the argument of parseElements in the elements effect
ResolveElements ==
  /\ stage = "input"
  /\ stage' = "elements"
  /\ effective' = EffectiveElements(appearance)
  /\ UNCHANGED << defaults, appearance, providerVars >>

SpecElements == InitElements /\ [][ResolveElements]_vars

\* themes that carry variables, elements, both or neither, over one token
\* and one key
SmallThemes ==
  { Spread(v, e) :
      v \in Optional("variables", PartialMaps({ "fontSize" }, { "14px", "16px" })),
      e \in Optional("elements", PartialMaps({ "button" }, { red, custom })) }

InitThemes ==
  /\ providerIdle
  /\ stage = "input"
  /\ defaults \in PartialMaps({ "fontSize" }, { "14px", "16px" })
  /\ appearance \in
       { Spread(top, base) :
           top \in SmallThemes,
           base \in Optional("baseTheme", BaseThemes(SmallThemes)) }
  /\ effective = EmptyObject

\* the arguments of parseVariables and parseElements for one appearance
ResolveThemes ==
  /\ stage = "input"
  /\ stage' = "resolved"
  /\ effective' = [ variables |-> EffectiveVariables(defaults, appearance),
                    elements |-> EffectiveElements(appearance) ]
  /\ UNCHANGED << defaults, appearance, providerVars >>

\* one resolution of the variables and the elements of an appearance
SpecThemes == InitThemes /\ [][ResolveThemes]_vars

\* the body of the elements effect on the resolved map, in a provider that
\* has its node and an empty registry
RegisterElements ==
  /\ stage = "elements"
  /\ stage' = "registered"
  /\ store' = [store EXCEPT ![1] = mergeClasses(@, parseElements(effective))]
  /\ elementRules' = [elementRules EXCEPT ![1] = rulesOf(parseElements(effective))]
  /\ UNCHANGED << nodes, phase, props, styleElement, variableRules, pending,
                  defaults, appearance, effective >>

\* one resolution of the elements followed by its registration
SpecRegistry == InitElements /\ [][ResolveElements \/ RegisterElements]_vars

(***************************************************************************)
(* The consumers.  A component calls useAppearance() and gets the value of *)
(* the provider that encloses it, or the error; the call is synchronous,   *)
(* so no provider takes a step between the call and its outcome.  The      *)
(* caller is at place c: inside provider c, or inside none when c is 0.    *)
(* The outcome is kept in stage ("returned" or "thrown") and effective     *)
(* (the value returned, or the Error thrown) until the caller goes on.     *)
(***************************************************************************)
Callers == 0 .. NumInstances

\* createContext<AppearanceContextType | undefined>(undefined)
undefined == [kind |-> "undefined"]

\* a provider that exposes the effective elements, base themes included
contextValueEffective(i) ==
  [ elements |-> EffectiveElements(props[i].appearance),
    appearanceKeyToCssInJsClass |-> store[i],
    id |-> props[i].id ]

\* the value of <AppearanceContext.Provider>
contextValue(i) ==
  [ elements |-> OrEmpty(props[i].appearance, "elements"),
    appearanceKeyToCssInJsClass |-> store[i],
    id |-> props[i].id ]

\* a context created with an empty value as its default
useContextDefaulting(c) ==
  [ kind |-> "value",
    value |-> IF c = 0
              THEN [ elements |-> EmptyObject,
                     appearanceKeyToCssInJsClass |-> EmptyObject,
                     id |-> "" ]
              ELSE contextValue(c) ]

\* useContext(AppearanceContext): the value of the enclosing provider, or the
\* default of the context where there is none
useContext(c) ==
  IF c = 0 THEN undefined ELSE [kind |-> "value", value |-> contextValue(c)]

Error(message) == [name |-> "Error", message |-> message]

\* useAppearance(): if (!context) throw new Error(...); return context
useAppearance(c) ==
  LET context == useContext(c)
  IN IF context.kind = "undefined"
     THEN [ completion |-> "thrown",
            value |-> Error("useAppearance must be used within an AppearanceProvider") ]
     ELSE [ completion |-> "returned", value |-> context.value ]

\* components are rendered, and call their hooks, before the effects their
\* render queued start to run or after the last of them has run
rendering == \A j \in Instances : pending[j] \in { {}, Effects }

\* a component at place c calls useAppearance(); the children of a provider
\* exist from its render to its disposal
UseAppearance(c) ==
  /\ stage = "idle"
  /\ rendering
  /\ c # 0 => phase[c] # "Unmounted"
  /\ stage' = useAppearance(c).completion
  /\ effective' = useAppearance(c).value
  /\ UNCHANGED << defaults, appearance, providerVars >>

\* the caller goes on with the outcome
CallerContinues ==
  /\ stage \in { "returned", "thrown" }
  /\ stage' = "idle"
  /\ effective' = EmptyObject
  /\ UNCHANGED << defaults, appearance, providerVars >>

NextContext ==
  \/ stage = "idle" /\ Next
  \/ \E c \in Callers : UseAppearance(c)
  \/ CallerContinues

SpecContext == Init /\ [][NextContext]_vars

(***************************************************************************)
(* One provider and its consumer, for every appearance over one key: the   *)
(* appearance is drawn first, the provider is rendered with it under the   *)
(* id "X", its effects run, and a component inside it calls useAppearance. *)
(***************************************************************************)
InitExposed ==
  /\ providerIdle
  /\ stage = "idle"
  /\ defaults = EmptyObject
  /\ appearance \in
       AppearancesOver("elements", PartialMaps({ "button" }, { red, custom }))
  /\ effective = EmptyObject

\* a step of the one provider
ProviderStep ==
  \/ Render(1, "X", appearance)
  \/ OnMountCreate(1)
  \/ VariablesEffect(1)
  \/ ElementsEffect(1)
  \/ WriteEffect(1)

NextExposed ==
  \/ stage = "idle" /\ ProviderStep
  \/ UseAppearance(1)
  \/ CallerContinues

SpecExposed == InitExposed /\ [][NextExposed]_vars

(***************************************************************************)
(* What the claims speak of.                                               *)
(***************************************************************************)
\* the ordered list of base themes of an appearance, as the caller gave it
baseThemeList(app) ==
  IF "baseTheme" \notin DOMAIN app THEN << >>
  ELSE IF app.baseTheme.kind = "array" THEN app.baseTheme.items
  ELSE << app.baseTheme.theme >>

\* the places in the list of the base themes whose field f defines key k
Defining(ts, f, k) ==
  { n \in 1 .. Len(ts) : f \in DOMAIN ts[n] /\ k \in DOMAIN ts[n][f] }

Last(places) == CHOOSE n \in places : \A m \in places : m <= n

Range(s) == { s[n] : n \in DOMAIN s }

\* obj[k] is v
Has(obj, k, v) == k \in DOMAIN obj /\ obj[k] = v

\* C1: for every token, the value passed to parseVariables is the top-level
\* variables' value if they define the token, else the value of the last base
\* theme that defines it, else the default, else the token is absent.
C1_VariablePrecedence ==
  stage = "variables" =>
    \A k \in Range(Variables) :
      LET ts == baseThemeList(appearance)
          places == Defining(ts, "variables", k)
      IN IF "variables" \in DOMAIN appearance /\ k \in DOMAIN appearance.variables
         THEN Has(effective, k, appearance.variables[k])
         ELSE IF places # {}
         THEN Has(effective, k, ts[Last(places)].variables[k])
         ELSE IF k \in DOMAIN defaults
         THEN Has(effective, k, defaults[k])
         ELSE k \notin DOMAIN effective

\* C1 witness: a resolution where the default, two base themes and the top
\* level all give fontSize, the base themes disagree, and the top level wins,
\* while colorPrimary comes from the last of two base themes over the default.
C1_Witness ==
  /\ stage = "variables"
  /\ defaults = [colorPrimary |-> "16px", fontSize |-> "16px"]
  /\ appearance =
       [ variables |-> [fontSize |-> "#111"],
         baseTheme |->
           [ kind |-> "array",
             items |-> << [variables |-> [colorPrimary |-> "16px", fontSize |-> "16px"]],
                          [variables |-> [colorPrimary |-> "#111", fontSize |-> "16px"]] >> ] ]
  /\ effective = [colorPrimary |-> "#111", fontSize |-> "#111"]

\* C2: for every key, the style passed to parseElements is the top-level
\* elements' value if they define the key, else the value of the last base
\* theme whose elements define it, else the key is absent; the value is the
\* winner's as a whole.
C2_ElementPrecedence ==
  stage = "elements" =>
    \A k \in Range(appearanceKeys) :
      LET ts == baseThemeList(appearance)
          places == Defining(ts, "elements", k)
      IN IF "elements" \in DOMAIN appearance /\ k \in DOMAIN appearance.elements
         THEN Has(effective, k, appearance.elements[k])
         ELSE IF places # {}
         THEN Has(effective, k, ts[Last(places)].elements[k])
         ELSE k \notin DOMAIN effective

\* C2 witness: the top level styles the button with a padding over a base
\* theme that colours it, and the effective style is the padding alone; the
\* back button comes from the last of two base themes.
C2_Witness ==
  /\ stage = "elements"
  /\ appearance =
       [ elements |-> [button |-> padded],
         baseTheme |->
           [ kind |-> "array",
             items |-> << [elements |-> [button |-> red, back__button |-> custom]],
                          [elements |-> [back__button |-> red]] >> ] ]
  /\ effective = [button |-> padded, back__button |-> red]

(***************************************************************************)
(* Steps of one instance, told from a pair of states.                      *)
(***************************************************************************)
mounted(i) == phase[i] \in { "Adopted", "Created" }

\* the onMount callback of i runs
MountStep(i) == "onMount" \in pending[i] /\ "onMount" \notin pending'[i]

\* one queued effect of i runs
EffectStep(i) == pending[i] # {} /\ pending'[i] # pending[i]

\* the elements effect of i runs on a node
ElementsStep(i) ==
  /\ "elements" \in runnable(pending[i])
  /\ "elements" \notin pending'[i]
  /\ styleElement[i] # 0

\* the last queued effect of i has run
FlushEnd(i) == pending[i] # {} /\ pending'[i] = {}

\* i is disposed
TeardownStep(i) == phase[i] # "Unmounted" /\ phase'[i] = "Unmounted"

\* the nodes of the document with the given id
inDocumentWith(ns, id) ==
  { n \in 1 .. Len(ns) : ns[n].inDocument /\ ns[n].id = id }

\* C3: the document never holds two nodes with the same id; a mount that
\* finds no node with its id creates exactly one, and a mount that finds one
\* adopts it and creates none.
C3_OneNodePerId ==
  /\ [](\A id \in Ids : Cardinality(inDocumentWith(nodes, id)) <= 1)
  /\ [][\A i \in Instances :
          MountStep(i) =>
            IF getElementById(props[i].id) = 0
            THEN /\ Len(nodes') = Len(nodes) + 1
                 /\ inDocumentWith(nodes', props[i].id) = { Len(nodes) + 1 }
                 /\ styleElement'[i] = Len(nodes) + 1
            ELSE /\ nodes' = nodes
                 /\ styleElement'[i] = getElementById(props[i].id)]_vars

\* C3 witness: two mounted instances with the same id, the first the creator
\* and the second an adopter of the one node the document holds.
C3_Witness ==
  /\ phase[1] = "Created" /\ phase[2] = "Adopted"
  /\ props[1].id = "X" /\ props[2].id = "X"
  /\ styleElement[1] = 1 /\ styleElement[2] = 1
  /\ inDocumentWith(nodes, "X") = { 1 }
  /\ Len(nodes) = 1

\* C4: a teardown changes the document only when the instance created a
\* node at its mount, and then it removes that node and no other; the
\* teardown of an adopter leaves every node as it is.
C4_TeardownRemovesOwnNode ==
  [][\A i \in Instances :
       TeardownStep(i) =>
         IF phase[i] = "Created"
         THEN /\ Len(nodes') = Len(nodes)
              /\ ~nodes'[styleElement[i]].inDocument
              /\ \A n \in 1 .. Len(nodes) :
                   /\ n # styleElement[i] => nodes'[n] = nodes[n]
                   /\ nodes'[n].id = nodes[n].id
                   /\ nodes'[n].innerHTML = nodes[n].innerHTML
         ELSE nodes' = nodes]_vars

\* C4 witness: the creator of node 2 is the only instance left, idle, and its
\* node holds rules that are not its own: an adopter wrote them and was torn
\* down without removing the node; node 1 went with an earlier creator.
C4_Witness ==
  /\ Len(nodes) = 2
  /\ ~nodes[1].inDocument /\ nodes[2].inDocument
  /\ phase[1] = "Created" /\ styleElement[1] = 2 /\ pending[1] = {}
  /\ \A j \in Instances \ {1} : phase[j] = "Unmounted"
  /\ nodes[2].innerHTML # innerHTMLWritten(variableRules[1], elementRules[1])

\* C5 as claimed: after any teardown, no node with the instance's id is left
\* in the document.
C5_AnyTeardownRemoves ==
  [][\A i \in Instances :
       TeardownStep(i) => elementById(nodes', props[i].id) = 0]_vars

\* C5, amended: after the teardown of an instance that created its node, no
\* node with its id is left in the document, and a mount that then finds
\* none creates a node that is new, in the document and empty; the teardown of
\* an adopter leaves the node with its id in the document.
C5_CreatorTeardownRemoves ==
  [][\A i \in Instances :
       /\ TeardownStep(i) /\ phase[i] = "Created"
            => elementById(nodes', props[i].id) = 0
       /\ TeardownStep(i) /\ phase[i] = "Adopted"
            => elementById(nodes', props[i].id) = getElementById(props[i].id)
       /\ MountStep(i) /\ getElementById(props[i].id) = 0
            => /\ styleElement'[i] = Len(nodes) + 1
               /\ nodes'[styleElement'[i]] =
                    [id |-> props[i].id, innerHTML |-> "", inDocument |-> TRUE]]_vars

\* C5 witness: node 1 was written and removed by the teardown of its creator,
\* and the next mount with the same id has just created node 2, which is
\* empty.
C5_Witness ==
  /\ Len(nodes) = 2
  /\ nodes[1].id = nodes[2].id
  /\ ~nodes[1].inDocument /\ nodes[1].innerHTML # ""
  /\ nodes[2].inDocument /\ nodes[2].innerHTML = ""
  /\ \E i \in Instances : phase[i] = "Created" /\ styleElement[i] = 2

\* C6: when a mounted instance has run the last effect queued by a change,
\* its node holds exactly its current variable rules followed by its current
\* element rules, joined by spaces.
C6_NodeHoldsCurrentRules ==
  [][\A i \in Instances :
       FlushEnd(i) /\ mounted(i) =>
         nodes'[styleElement'[i]].innerHTML =
           Join(variableRules'[i] \o elementRules'[i])]_vars

\* C6 witness: an idle instance whose appearance has changed since its mount
\* (its registry still has the button its elements no longer style), and its
\* node holds the rules of the new appearance.
C6_Witness ==
  \E i \in Instances :
    /\ mounted(i) /\ idle
    /\ "button" \in DOMAIN store[i]
    /\ "button" \notin DOMAIN EffectiveElements(props[i].appearance)
    /\ variableRules[i] # << >> /\ elementRules[i] # << >>
    /\ nodes[styleElement[i]].innerHTML = Join(variableRules[i] \o elementRules[i])

\* C7: while the node reference of an instance is null it has no variable
\* rules, no element rules and no registry entry, and the effects it runs
\* leave every node as it is: the dependent steps act only after the attach
\* step.
C7_AttachBeforeDependents ==
  /\ [](\A i \in Instances :
          styleElement[i] = 0 =>
            /\ variableRules[i] = << >>
            /\ elementRules[i] = << >>
            /\ store[i] = EmptyObject)
  /\ [][\A i \in Instances :
          EffectStep(i) /\ styleElement'[i] = 0 => nodes' = nodes]_vars

\* C7 witness: the three effects of an instance have run before its onMount
\* callback: the node reference is null, and nothing was computed or written.
C7_Witness ==
  \E i \in Instances :
    /\ phase[i] = "Attaching"
    /\ pending[i] = { "onMount" }
    /\ styleElement[i] = 0
    /\ variableRules[i] = << >> /\ elementRules[i] = << >>
    /\ store[i] = EmptyObject
    /\ \E j \in Instances : mounted(j) /\ props[j].id = props[i].id

\* C8 as claimed: no effect of an instance changes the content of the node,
\* or the registry, that another instance uses.
C8_NoCrossInstanceMutation ==
  [][\A i \in Instances :
       EffectStep(i) =>
         \A j \in Instances \ {i} :
           /\ store'[j] = store[j]
           /\ styleElement[j] # 0 =>
                nodes'[styleElement[j]].innerHTML = nodes[styleElement[j]].innerHTML]_vars

\* C8, amended: the registry of an instance is changed only by that
\* instance's own steps, and the content of a node is changed only by an
\* effect of an instance whose node reference is that node, its creator or an
\* adopter; instances attached to the same node do overwrite one another.
C8_OnlyAttachedInstancesWrite ==
  [][/\ \A i \in Instances :
          EffectStep(i) => \A j \in Instances \ {i} : store'[j] = store[j]
     /\ \A j \in Instances :
          store'[j] # store[j] => EffectStep(j) \/ TeardownStep(j)
     /\ \A n \in 1 .. Len(nodes) :
          nodes'[n].innerHTML # nodes[n].innerHTML =>
            \E i \in Instances : EffectStep(i) /\ styleElement[i] = n]_vars

\* C8 witness: two idle instances are attached to the same node under
\* different appearances, and the node holds the rules of the second and not
\* those of the first.
C8_Witness ==
  /\ mounted(1) /\ mounted(2) /\ idle
  /\ styleElement[1] = styleElement[2]
  /\ props[1].appearance # props[2].appearance
  /\ nodes[styleElement[1]].innerHTML = Join(variableRules[2] \o elementRules[2])
  /\ nodes[styleElement[1]].innerHTML # Join(variableRules[1] \o elementRules[1])

\* the class the registry gives key k of the element map
registered(elements, k) ==
  IF baseKeyOf(k) \in DOMAIN elements
  THEN ownClass(baseKeyOf(k), elements[baseKeyOf(k)]) \o " " \o ownClass(k, elements[k])
  ELSE ownClass(k, elements[k])

\* C9: while an instance is mounted no key leaves its registry, and a run of
\* the elements effect sets the entry of every key of the effective element
\* map to its class and leaves every other entry as it was.
C9_RegistryOnlyGrows ==
  [][\A i \in Instances :
       /\ phase[i] # "Unmounted" /\ phase'[i] # "Unmounted"
            => DOMAIN store[i] \subseteq DOMAIN store'[i]
       /\ ElementsStep(i) =>
            LET elements == EffectiveElements(props[i].appearance)
            IN \A k \in Range(appearanceKeys) :
                 IF k \in DOMAIN elements
                 THEN Has(store'[i], k, registered(elements, k))
                 ELSE /\ k \in DOMAIN store'[i] <=> k \in DOMAIN store[i]
                      /\ k \in DOMAIN store[i] => store'[i][k] = store[i][k]]_vars

\* C9 witness: an idle instance whose appearance no longer styles the button
\* or the root keeps their entries, and the entry of the back button is the
\* class of its new style.
C9_Witness ==
  \E i \in Instances :
    /\ mounted(i) /\ idle
    /\ props[i].appearance = [elements |-> [back__button |-> red]]
    /\ store[i] = [ button |-> "nv-button-colorred",
                    back__button |-> "nv-back__button-colorred",
                    root |-> "my-class" ]

\* C10 as claimed, read where the instance has finished reacting: the keys of
\* the registry are keys of the element map that is effective now.
C10_RegistryWithinCurrentMap ==
  \A i \in Instances :
    mounted(i) /\ pending[i] = {} =>
      DOMAIN store[i] \subseteq DOMAIN EffectiveElements(props[i].appearance)

\* C10, amended: a step adds to the registry only keys of the element map
\* that is effective at that step, so the keys of the registry are keys of the
\* element maps the instance has resolved since its mount, the current one or
\* an earlier one.
C10_RegistryWithinResolvedMaps ==
  [][\A i \in Instances :
       DOMAIN store'[i] \subseteq
         DOMAIN store[i] \cup DOMAIN EffectiveElements(props'[i].appearance)]_vars

\* C10 witness: an idle instance under the appearance that styles only the
\* back button has the button, a key of its earlier appearance, in its
\* registry.
C10_Witness ==
  \E i \in Instances :
    /\ mounted(i) /\ pending[i] = {}
    /\ DOMAIN EffectiveElements(props[i].appearance) = { "back__button" }
    /\ "button" \in DOMAIN store[i]
    /\ elementRules[i] = << ".nv-back__button-colorred{color:red;}" >>

\* C11: a call of useAppearance with no provider around the caller throws
\* the Error 'useAppearance must be used within an AppearanceProvider' and
\* returns nothing; a call inside a rendered provider returns that provider's
\* { elements, appearanceKeyToCssInJsClass, id }; and whatever a call returns
\* is the value of a rendered provider, never a default.
C11_AccessorOutsideProviderThrows ==
  /\ [](stage = "returned" =>
          \E i \in Instances : phase[i] # "Unmounted" /\ effective = contextValue(i))
  /\ [][/\ UseAppearance(0) =>
            /\ stage' = "thrown"
            /\ effective' =
                 [ name |-> "Error",
                   message |-> "useAppearance must be used within an AppearanceProvider" ]
        /\ \A c \in Instances :
             UseAppearance(c) =>
               /\ stage' = "returned"
               /\ DOMAIN effective' = { "elements", "appearanceKeyToCssInJsClass", "id" }
               /\ effective'.appearanceKeyToCssInJsClass = store[c]
               /\ effective'.id = props[c].id]_vars

\* C11 witness: a call outside every provider has thrown the error while a
\* provider is mounted, idle, with a value of its own that was not returned.
C11_Witness ==
  /\ stage = "thrown"
  /\ effective.message = "useAppearance must be used within an AppearanceProvider"
  /\ \E i \in Instances :
       mounted(i) /\ idle /\ contextValue(i).appearanceKeyToCssInJsClass # EmptyObject

\* the keys that extend another key
compoundKeys == { k \in Range(appearanceKeys) : baseKeyOf(k) # "" }

\* C12: for every effective element map, the registry value of a compound key
\* of the map is the registry value of its base key, a space and the compound
\* key's own class when the map has the base key, and the compound key's own
\* class alone when it has not.
C12_CompoundKeyClass ==
  stage = "registered" =>
    \A k \in compoundKeys \cap DOMAIN effective :
      /\ k \in DOMAIN store[1]
      /\ IF baseKeyOf(k) \in DOMAIN effective
         THEN store[1][k] =
                store[1][baseKeyOf(k)] \o " " \o ownClass(k, effective[k])
         ELSE store[1][k] = ownClass(k, effective[k])

\* C12 witness: the map of the documented example, a red button and a padded
\* back button, and the back button is registered under both classes.
C12_Witness ==
  /\ stage = "registered"
  /\ effective = [button |-> red, back__button |-> padded]
  /\ store[1] = [ button |-> "nv-button-colorred",
                  back__button |-> "nv-button-colorred nv-back__button-padding4px" ]

\* the CSS text of the inputs of a provider: its appearance and its id, over
\* the defaults
stylesheetOf(app, id) ==
  Join(parseVariables(EffectiveVariables(defaultVariables, app), id)
         \o rulesOf(parseElements(EffectiveElements(app))))

\* C13: the text a mounted instance has written when it has finished reacting
\* is the CSS text of its current appearance and id, whatever it processed
\* before; and two instances that have finished reacting to the same
\* appearance and id hold the same rules.
C13_StylesheetOfCurrentInputs ==
  /\ [](\A i, j \in Instances :
          /\ mounted(i) /\ pending[i] = {}
          /\ mounted(j) /\ pending[j] = {}
          /\ props[i] = props[j]
          => variableRules[i] = variableRules[j] /\ elementRules[i] = elementRules[j])
  /\ [][\A i \in Instances :
          FlushEnd(i) /\ mounted(i) =>
            nodes'[styleElement'[i]].innerHTML =
              stylesheetOf(props'[i].appearance, props'[i].id)]_vars

\* C13 witness: two idle instances with the same appearance and id, the
\* first of which has processed another appearance before (its registry has
\* the button of that one), and their node holds the text of what they have
\* now.
C13_Witness ==
  /\ mounted(1) /\ mounted(2) /\ idle
  /\ props[1] = props[2]
  /\ "button" \in DOMAIN store[1] /\ "button" \notin DOMAIN store[2]
  /\ styleElement[1] = styleElement[2]
  /\ nodes[styleElement[1]].innerHTML =
       ".X{--nv-colorPrimary:#000;} .nv-back__button-colorred{color:red;}"

\* the order of the lifecycle; the rules are applied, again and again, while
\* the instance is Adopted or Created, and the disposal is one step
lifecycleOrder ==
  { << "Unmounted", "Attaching" >>,
    << "Attaching", "Adopted" >>, << "Attaching", "Created" >>,
    << "Adopted", "Unmounted" >>, << "Created", "Unmounted" >> }

\* C14: the phase of an instance changes only in the order Unmounted,
\* Attaching, Adopted or Created, Unmounted; an instance writes to a node only
\* between its attach step and its teardown, and is torn down only after it
\* has applied its rules; a teardown happens once per mount (after it the
\* instance has no effect left, and only a new render follows), it is the
\* lookup-and-remove of the creator and nothing for an adopter, and the
\* removal, run again when the node is gone, changes nothing.
C14_LifecycleOrder ==
  /\ [](\A i \in Instances :
          phase[i] = "Unmounted" =>
            pending[i] = {} /\ styleElement[i] = 0 /\ variableRules[i] = << >>)
  /\ [][\A i \in Instances :
          /\ phase'[i] # phase[i] => << phase[i], phase'[i] >> \in lifecycleOrder
          /\ EffectStep(i) /\ nodes' # nodes => phase'[i] \in { "Adopted", "Created" }
          /\ TeardownStep(i) =>
               /\ variableRules[i] # << >> /\ pending[i] = {}
               /\ nodes' = IF phase[i] = "Created"
                           THEN removeById(nodes, props[i].id)
                           ELSE nodes
               /\ \A n \in 1 .. Len(nodes) : nodes'[n].innerHTML = nodes[n].innerHTML
               /\ phase[i] = "Created" =>
                    /\ elementById(nodes', props[i].id) = 0
                    /\ removeById(nodes', props[i].id) = nodes']_vars

\* C14 witness: every instance is back to Unmounted, the node the first of
\* them created holds the rules it applied and is out of the document, and
\* no node with its id is left for a removal to find.
C14_Witness ==
  /\ \A i \in Instances : phase[i] = "Unmounted"
  /\ Len(nodes) = 1
  /\ nodes[1].innerHTML # "" /\ ~nodes[1].inDocument
  /\ getElementById(nodes[1].id) = 0

\* the appearance with its base themes given as a list: a single Theme T as
\* the list of T alone, no baseTheme as the empty list
withBaseThemeList(app) ==
  Spread(app, [baseTheme |-> [kind |-> "array", items |-> baseThemeList(app)]])

\* C15: an appearance resolves to the effective variables and elements of
\* the appearance that gives the same base themes as a list: [T] for a single
\* Theme T, the empty list for no baseTheme.
C15_BaseThemeNormalization ==
  stage = "resolved" =>
    /\ effective.variables = EffectiveVariables(defaults, withBaseThemeList(appearance))
    /\ effective.elements = EffectiveElements(withBaseThemeList(appearance))

\* C15 witness: a single Theme, not in a list, gives the font size over the
\* default and the button, and both are in the result.
C15_Witness ==
  /\ stage = "resolved"
  /\ defaults = [fontSize |-> "14px"]
  /\ appearance =
       [ baseTheme |->
           [ kind |-> "theme",
             theme |-> [ variables |-> [fontSize |-> "16px"],
                         elements |-> [button |-> red] ] ] ]
  /\ effective = [ variables |-> [fontSize |-> "16px"],
                   elements |-> [button |-> red] ]

\* the write effect of i sets the text of a node
WriteStep(i) ==
  /\ "write" \in runnable(pending[i])
  /\ "write" \notin pending'[i]
  /\ styleElement[i] # 0

\* C16 as claimed: the node a mounted instance is attached to is in the
\* document, and every write of a mounted instance goes to a node that is in
\* the document.
C16_AttachedNodeInDocument ==
  /\ [](\A i \in Instances :
          mounted(i) /\ styleElement[i] # 0 => nodes[styleElement[i]].inDocument)
  /\ [][\A i \in Instances :
          WriteStep(i) => nodes[styleElement[i]].inDocument]_vars

\* the properties mappings callers give
ObjectStyles == { red, padded }

\* the registry values of key k that end with the class generated for k from
\* the mapping s: that class alone, or after the class of the base key
classEntries(k, s) ==
  { ownClass(k, s) }
    \cup { ownClass(baseKeyOf(k), b) \o " " \o ownClass(k, s) :
             b \in ObjectStyles \cup { custom } }

\* the rule of the class generated for k from the mapping s
ruleOfClass(k, s) ==
  "." \o ownClass(k, s) \o "{" \o cssObjectToString(s.css, cssProperties) \o "}"

\* C17 as claimed, read where the instance has finished reacting: every
\* class the registry holds that was generated from a properties mapping has
\* its rule among the current element rules.
C17_RegisteredClassHasRule ==
  \A i \in Instances :
    mounted(i) /\ pending[i] = {} =>
      \A k \in DOMAIN store[i], s \in ObjectStyles :
        store[i][k] \in classEntries(k, s) =>
          ruleOfClass(k, s) \in Range(elementRules[i])

\* C17, amended: every key that the current effective element map styles
\* with a properties mapping is registered under the class generated from
\* that mapping, and the rule of that class is among the element rules, by
\* the run of the elements effect that resolves the map; the class of a key
\* that a later appearance has dropped stays registered without its rule.
C17_CurrentClassHasRule ==
  [][\A i \in Instances :
       ElementsStep(i) =>
         LET elements == EffectiveElements(props[i].appearance)
         IN \A k \in DOMAIN elements :
              elements[k].kind = "object" =>
                /\ Has(store'[i], k, registered(elements, k))
                /\ ruleOfClass(k, elements[k]) \in Range(elementRules'[i])]_vars

\* C17 witness: an idle instance whose appearance styles the back button
\* alone: the class of the back button has its rule, and the class of the
\* button, registered under the earlier appearance, has none.
C17_Witness ==
  \E i \in Instances :
    /\ mounted(i) /\ pending[i] = {}
    /\ EffectiveElements(props[i].appearance) = [back__button |-> red]
    /\ Has(store[i], "back__button", "nv-back__button-colorred")
    /\ Has(store[i], "button", "nv-button-colorred")
    /\ ".nv-back__button-colorred{color:red;}" \in Range(elementRules[i])
    /\ ".nv-button-colorred{color:red;}" \notin Range(elementRules[i])

\* C18: the elements a call of useAppearance returns are the elements of the
\* top-level appearance of the provider, the empty object when it gives none;
\* and once the provider has finished reacting, a key that a base theme
\* styles is in the registry the call returns, with its rule among the
\* element rules when the style is a properties mapping, and is in the
\* returned elements only if the top level styles it too.
C18_ExposedElementsTopLevelOnly ==
  stage = "returned" =>
    LET app == props[1].appearance
        ts == baseThemeList(app)
    IN /\ effective.elements =
            (IF "elements" \in DOMAIN app THEN app.elements ELSE EmptyObject)
       /\ mounted(1) /\ pending[1] = {} =>
            \A k \in Range(appearanceKeys) :
              Defining(ts, "elements", k) # {} =>
                /\ k \in DOMAIN effective.appearanceKeyToCssInJsClass
                /\ ~("elements" \in DOMAIN app /\ k \in DOMAIN app.elements) =>
                     LET s == ts[Last(Defining(ts, "elements", k))].elements[k]
                     IN /\ k \notin DOMAIN effective.elements
                        /\ s.kind = "object" =>
                             ruleOfClass(k, s) \in Range(elementRules[1])

\* C18 witness: the appearance gives no elements of its own and a base theme
\* colours the button: the call returns empty elements and a registry that
\* has the class of the button, whose rule is among the element rules.
C18_Witness ==
  /\ stage = "returned"
  /\ props[1].appearance =
       [ baseTheme |-> [ kind |-> "theme", theme |-> [elements |-> [button |-> red]] ] ]
  /\ effective.elements = EmptyObject
  /\ effective.appearanceKeyToCssInJsClass = [button |-> "nv-button-colorred"]
  /\ elementRules[1] = << ".nv-button-colorred{color:red;}" >>

====
